---- MODULE Spec2Model ----
(***************************************************************************)
(* XTC - Crypto Twitter Sentinel: the web clients.                         *)
(*                                                                         *)
(* SpecStatic  the vanilla-JS client of src/static/app.js: refresh button, *)
(*             tweets pagination and sentiment filter, summaries, alerts.  *)
(* SpecChat    the chat panel of src/static/app.js.                        *)
(* SpecReact   the React App component, in its three variants.             *)
(* SpecSummary the Summary component; SpecAlertCards renderAlerts;         *)
(* SpecTasks   the TaskList component.                                     *)
(* SpecRefreshing the refresh button of every client, with fairness.       *)
(*                                                                         *)
(* A network request is a message in flight; its response is a separate    *)
(* step that may come in any order with respect to the other requests,     *)
(* the timers and the user's clicks.                                       *)
(***************************************************************************)
EXTENDS Integers, Sequences, FiniteSets, TLC

VARIABLES
    \* ---- static client (src/static/app.js)
    loaded,                 \* DOMContentLoaded has run, listeners are attached
    refreshBtn,             \* [disabled, textContent] of #refresh-btn
    refreshPosts,           \* POST /api/refresh requests in flight
    refreshTimers,          \* pending setTimeout(..., 3000) callbacks of handleRefresh
    resetTimers,            \* pending setTimeout(..., 2000) callbacks of handleRefresh
    droppedClicks,          \* history: this refresh, a click reached the disabled button
    reread,                 \* history: this refresh, the POST's outcome and what was re-read
    currentPage,
    currentLimit,
    currentSentimentFilter,
    isLoading,
    tweetReqs,              \* GET /api/tweets requests in flight
    tweetsContainer,        \* #tweets-container: [msg, items], items the filters the tweets shown were requested with
    loadMoreBtn,            \* style.display of #load-more-btn
    sentPages,              \* history: [page, limit] of the last two requests sent since the last reset
    summReqs,               \* GET /api/summaries requests in flight, in issue order
    liveSummary,            \* [kind, latest] of #live-summary
    alertReqs,              \* GET /api/alerts requests in flight
    alertsContainer,        \* kind of content of #alerts-container
    \* ---- chat panel of the static client (src/static/app.js)
    chatInput,              \* value of #chat-message-input, a sequence of characters
    chatMessages,           \* children of #chat-messages: [sender, parts]
    chatReqs,               \* POST /api/chat requests in flight: their JSON bodies
    sentCount,              \* history: calls of handleSendMessage that sent a request
    lastSend,               \* history: what the last call of handleSendMessage did
    lastReply,              \* history: the last response, the index of its bot message, and
                            \* whether its request was the oldest one then in flight
    \* ---- React App component (Summary.js:120-273, unnamed/part_003, unnamed/part_002)
    variant,                \* which App is mounted; "none" before the first render
    mounted,
    interval,               \* the setInterval timer of the mount effect is active
    summaries,              \* useState: version of the data, 0 for the initial []
    alerts,                 \* useState: sequence of [id, is_read]
    tweets,                 \* useState: version of the data, 0 for the initial []
    loading,
    error,
    refreshing,
    fetches,                \* fetchData calls in flight: [stage, from, thenClear]
    reactPosts,             \* POST /api/refresh requests in flight
    reactTimeouts,          \* pending setTimeout callbacks of handleRefresh
    marks,                  \* markAlertRead calls in flight: [alertId, alerts]
    lastMark,               \* history: the markAlertRead call that completed last
    serverRead,             \* server: ids of the alerts whose is_read is true
    lastFetch,              \* history: how the fetchData call that ended last ended
    \* ---- rendering: the Summary component (Summary.js:1-118), renderAlerts (app.js)
    summaryView,            \* [summary, done, card]: the prop, and what Summary rendered for it
    alertsView,             \* [alerts, done, cards]: the importances of the alerts, and their cards
    \* ---- TaskList component (unnamed/part_001)
    tasks,                  \* the tasks prop: completed, by task id
    patchReqs,              \* PATCH /api/tasks/{id} requests in flight: [taskId, completed]
    lastToggle,             \* history: the last call of handleToggleComplete
    lastPatch               \* history: how the last PATCH ended and what followed

staticVars == <<loaded, refreshBtn, refreshPosts, refreshTimers, resetTimers,
                droppedClicks, reread, currentPage, currentLimit,
                currentSentimentFilter, isLoading, tweetReqs, tweetsContainer,
                loadMoreBtn, sentPages, summReqs, liveSummary, alertReqs,
                alertsContainer>>

chatVars == <<chatInput, chatMessages, chatReqs, sentCount, lastSend, lastReply>>

reactVars == <<variant, mounted, interval, summaries, alerts, tweets, loading, error,
               refreshing, fetches, reactPosts, reactTimeouts, marks, lastMark, serverRead,
               lastFetch>>

viewVars == <<summaryView, alertsView>>

taskVars == <<tasks, patchReqs, lastToggle, lastPatch>>

vars == <<staticVars, chatVars, reactVars, viewVars, taskVars>>

nonStaticVars == <<chatVars, reactVars, viewVars, taskVars>>

nonChatVars == <<staticVars, reactVars, viewVars, taskVars>>

nonReactVars == <<staticVars, chatVars, viewVars, taskVars>>

nonViewVars == <<staticVars, chatVars, reactVars, taskVars>>

nonTaskVars == <<staticVars, chatVars, reactVars, viewVars>>

(***************************************************************************)
(* Bounds                                                                  *)
(***************************************************************************)
MaxPage == 3
MaxInFlight == 1
MaxSummaries == 2
MaxRefreshes == 2

(***************************************************************************)
(* Helpers                                                                 *)
(***************************************************************************)
RemoveAt(s, i) == [j \in 1..(Len(s) - 1) |-> IF j < i THEN s[j] ELSE s[j + 1]]

\* data-sentiment values of the filter buttons that are clicked: 'all' and one of
\* the three sentiment labels, which the client treats alike
Filters == {"all", "bullish"}

Endpoints == {"summaries", "tweets", "alerts"}

(***************************************************************************)
(* Static client: state after the script has been evaluated                *)
(***************************************************************************)
InitialLimit == 10

DefaultLimit == 10

StaticInit ==
    /\ loaded = FALSE
    /\ refreshBtn = [disabled |-> FALSE, textContent |-> "Refresh Feed"]
    /\ refreshPosts = 0
    /\ refreshTimers = 0
    /\ resetTimers = 0
    /\ droppedClicks = FALSE
    /\ reread = [post |-> "none", fired |-> FALSE, sent |-> {}]
    /\ currentPage = 1
    /\ currentLimit = InitialLimit
    /\ currentSentimentFilter = "all"
    /\ isLoading = FALSE
    /\ tweetReqs = <<>>
    /\ tweetsContainer = [msg |-> "initial", items |-> {}]
    /\ loadMoreBtn = "block"
    /\ sentPages = <<>>
    /\ summReqs = <<>>
    /\ liveSummary = [kind |-> "initial", latest |-> TRUE]
    /\ alertReqs = 0
    /\ alertsContainer = "initial"

refreshVars == <<refreshBtn, refreshPosts, refreshTimers, resetTimers, droppedClicks, reread>>
tweetVars == <<currentPage, currentSentimentFilter, isLoading, tweetReqs,
               tweetsContainer, loadMoreBtn, sentPages>>
summVars == <<summReqs, liveSummary>>
alertVars == <<alertReqs, alertsContainer>>

\* the query string of GET /api/tweets: sentiment is added unless the filter is 'all'
\* the mutant of TweetsUrl: the sentiment parameter is always sent
TweetsUrl_AlwaysSentiment(limit, page, sf) ==
    [limit |-> limit, page |-> page, sentiment |-> sf]

TweetsUrl(limit, page, sf) ==
    IF sf # "all"
    THEN [limit |-> limit, page |-> page, sentiment |-> sf]
    ELSE [limit |-> limit, page |-> page]

UrlFilter(url) == IF "sentiment" \in DOMAIN url THEN url.sentiment ELSE "all"

\* fetchSummaries up to its await: the request is sent
fetchSummaries ==
    /\ summReqs' = Append([i \in DOMAIN summReqs |-> [latest |-> FALSE]], [latest |-> TRUE])
    /\ liveSummary' = [liveSummary EXCEPT !.latest = FALSE]

\* fetchAlerts up to its await: the request is sent
fetchAlerts ==
    /\ alertReqs' = alertReqs + 1
    /\ UNCHANGED alertsContainer

\* fetchTweets(reset, page, limit) up to its await; cp and sf are the values of
\* currentPage and currentSentimentFilter when it is entered
\* the mutant of fetchTweets: isLoading is not tested
fetchTweets_NoGuard(reset, page, limit, cp, sf) ==
    /\ isLoading' = TRUE
    /\ tweetsContainer' = IF reset THEN [msg |-> "loading", items |-> {}]
                                   ELSE tweetsContainer
    /\ currentPage' = IF reset THEN 1 ELSE cp
    /\ tweetReqs' = Append(tweetReqs, [reset |-> reset, url |-> TweetsUrl(limit, page, sf)])
    /\ sentPages' = IF reset \/ sentPages = <<>>
                     THEN <<[page |-> page, limit |-> limit]>>
                     ELSE <<sentPages[Len(sentPages)], [page |-> page, limit |-> limit]>>

fetchTweets(reset, page, limit, cp, sf) ==
    IF isLoading
    THEN /\ currentPage' = cp
         /\ UNCHANGED <<isLoading, tweetReqs, tweetsContainer, sentPages>>
    ELSE /\ isLoading' = TRUE
         /\ tweetsContainer' = IF reset THEN [msg |-> "loading", items |-> {}]
                                        ELSE tweetsContainer
         /\ currentPage' = IF reset THEN 1 ELSE cp
         /\ tweetReqs' = Append(tweetReqs, [reset |-> reset, url |-> TweetsUrl(limit, page, sf)])
         /\ sentPages' = IF reset \/ sentPages = <<>>
                          THEN <<[page |-> page, limit |-> limit]>>
                          ELSE <<sentPages[Len(sentPages)], [page |-> page, limit |-> limit]>>

DOMContentLoaded ==
    /\ ~loaded
    /\ loaded' = TRUE
    /\ fetchSummaries
    /\ fetchTweets(FALSE, 1, DefaultLimit, currentPage, currentSentimentFilter)
    /\ fetchAlerts
    /\ UNCHANGED <<refreshVars, currentLimit, currentSentimentFilter, loadMoreBtn>>
    /\ UNCHANGED nonStaticVars

(***************************************************************************)
(* Refresh button                                                          *)
(***************************************************************************)
\* the mutant of handleRefresh: the button is left enabled
handleRefresh_NoDisable ==
    /\ refreshBtn' = [refreshBtn EXCEPT !.textContent = "Refreshing..."]
    /\ refreshPosts' = refreshPosts + 1
    /\ reread' = [post |-> "pending", fired |-> FALSE, sent |-> {}]
    /\ UNCHANGED <<refreshTimers, resetTimers, droppedClicks>>

\* handleRefresh up to its await: the button is disabled and the POST is sent
handleRefresh ==
    /\ refreshBtn' = [disabled |-> TRUE, textContent |-> "Refreshing..."]
    /\ refreshPosts' = refreshPosts + 1
    /\ reread' = [post |-> "pending", fired |-> FALSE, sent |-> {}]
    /\ UNCHANGED <<refreshTimers, resetTimers, droppedClicks>>

\* a click on the enabled button runs the listener
ClickRefresh ==
    /\ loaded
    /\ ~refreshBtn.disabled
    /\ refreshPosts + refreshTimers + resetTimers < MaxRefreshes
    /\ Len(summReqs) < MaxSummaries
    /\ alertReqs < MaxInFlight
    /\ handleRefresh
    /\ UNCHANGED <<tweetVars, summVars, alertVars, loaded, currentLimit>>
    /\ UNCHANGED nonStaticVars

\* a click on the disabled button dispatches no click event
ClickRefreshDisabled ==
    /\ loaded
    /\ refreshBtn.disabled
    /\ droppedClicks' = TRUE
    /\ UNCHANGED <<refreshBtn, refreshPosts, refreshTimers, resetTimers, reread,
                   tweetVars, summVars, alertVars, loaded, currentLimit>>
    /\ UNCHANGED nonStaticVars

\* the POST resolved with response.ok: the 3000 ms timer is started
RefreshPostOk ==
    /\ refreshPosts > 0
    /\ refreshPosts' = refreshPosts - 1
    /\ refreshTimers' = refreshTimers + 1
    /\ reread' = [reread EXCEPT !.post = "ok"]
    /\ UNCHANGED <<refreshBtn, resetTimers, droppedClicks,
                   tweetVars, summVars, alertVars, loaded, currentLimit>>
    /\ UNCHANGED nonStaticVars

\* the POST rejected or resolved with a non-ok status: the catch branch
RefreshPostFail ==
    /\ refreshPosts > 0
    /\ refreshPosts' = refreshPosts - 1
    /\ refreshBtn' = [refreshBtn EXCEPT !.textContent = "Refresh Failed"]
    /\ resetTimers' = resetTimers + 1
    /\ reread' = [reread EXCEPT !.post = "failed"]
    /\ UNCHANGED <<refreshTimers, droppedClicks,
                   tweetVars, summVars, alertVars, loaded, currentLimit>>
    /\ UNCHANGED nonStaticVars

\* the 3000 ms callback: the three read endpoints are fetched again
RefreshTimer ==
    /\ refreshTimers > 0
    /\ refreshTimers' = refreshTimers - 1
    /\ fetchSummaries
    /\ fetchTweets(TRUE, 1, DefaultLimit, currentPage, currentSentimentFilter)
    /\ fetchAlerts
    /\ refreshBtn' = [refreshBtn EXCEPT !.textContent = "Feed Refreshed!"]
    /\ resetTimers' = resetTimers + 1
    /\ reread' = [reread EXCEPT
                    !.fired = TRUE,
                    !.sent = (IF Len(summReqs') > Len(summReqs) THEN {"summaries"} ELSE {})
                             \cup (IF Len(tweetReqs') > Len(tweetReqs) THEN {"tweets"} ELSE {})
                             \cup (IF alertReqs' > alertReqs THEN {"alerts"} ELSE {})]
    /\ UNCHANGED <<refreshPosts, droppedClicks, loaded, currentLimit,
                   currentSentimentFilter, loadMoreBtn>>
    /\ UNCHANGED nonStaticVars

\* the 2000 ms callback of either branch: the button is enabled again
RefreshReset ==
    /\ resetTimers > 0
    /\ resetTimers' = resetTimers - 1
    /\ refreshBtn' = [disabled |-> FALSE, textContent |-> "Refresh Feed"]
    /\ droppedClicks' = FALSE
    /\ reread' = [post |-> "none", fired |-> FALSE, sent |-> {}]
    /\ UNCHANGED <<refreshPosts, refreshTimers,
                   tweetVars, summVars, alertVars, loaded, currentLimit>>
    /\ UNCHANGED nonStaticVars

(***************************************************************************)
(* Tweets: Load More, sentiment filter, responses                          *)
(***************************************************************************)
handleLoadMore ==
    /\ loaded
    /\ loadMoreBtn = "block"
    /\ currentPage < MaxPage
    /\ fetchTweets(FALSE, currentPage + 1, currentLimit, currentPage + 1,
                   currentSentimentFilter)
    /\ UNCHANGED <<refreshVars, summVars, alertVars, loaded, currentLimit,
                   currentSentimentFilter, loadMoreBtn>>
    /\ UNCHANGED nonStaticVars

applySentimentFilter(sentiment) ==
    /\ loaded
    /\ currentSentimentFilter' = sentiment
    /\ fetchTweets(TRUE, 1, DefaultLimit, 1, sentiment)
    /\ UNCHANGED <<refreshVars, summVars, alertVars, loaded, currentLimit, loadMoreBtn>>
    /\ UNCHANGED nonStaticVars

ClickFilter == \E sentiment \in Filters : applySentimentFilter(sentiment)

\* what the response handler of fetchTweets leaves in the container and on the
\* Load More button; outcome is "data", "empty" or "fail"
TweetsRendered(req, outcome) ==
    LET cleared == IF req.reset THEN [msg |-> "none", items |-> {}] ELSE tweetsContainer
        batch == UrlFilter(req.url)
    IN  CASE outcome = "data" ->
               [container |-> [cleared EXCEPT !.items = @ \cup {batch}],
                button |-> "block"]
          [] outcome = "empty" ->
               [container |-> IF req.reset THEN [msg |-> "empty", items |-> {}] ELSE cleared,
                button |-> "none"]
          [] OTHER ->
               [container |-> IF req.reset THEN [msg |-> "error", items |-> {}]
                                            ELSE tweetsContainer,
                button |-> loadMoreBtn]

\* a tweets request completes: rendered or failed, and isLoading is reset
TweetsResponse ==
    \E i \in DOMAIN tweetReqs, outcome \in {"data", "empty", "fail"} :
        LET r == TweetsRendered(tweetReqs[i], outcome)
        IN  /\ tweetsContainer' = r.container
            /\ loadMoreBtn' = r.button
            /\ isLoading' = FALSE
            /\ tweetReqs' = RemoveAt(tweetReqs, i)
            /\ UNCHANGED <<refreshVars, summVars, alertVars, loaded, currentLimit,
                           currentPage, currentSentimentFilter, sentPages>>
            /\ UNCHANGED nonStaticVars

(***************************************************************************)
(* Summaries and alerts responses                                          *)
(***************************************************************************)
SummariesResponse ==
    \E i \in DOMAIN summReqs, outcome \in {"summary", "none", "error"} :
        /\ liveSummary' = [kind |-> outcome, latest |-> summReqs[i].latest]
        /\ summReqs' = RemoveAt(summReqs, i)
        /\ UNCHANGED <<refreshVars, tweetVars, alertVars, loaded, currentLimit>>
        /\ UNCHANGED nonStaticVars

AlertsResponse ==
    \E outcome \in {"alerts", "none", "error"} :
        /\ alertReqs > 0
        /\ alertReqs' = alertReqs - 1
        /\ alertsContainer' = outcome
        /\ UNCHANGED <<refreshVars, tweetVars, summVars, loaded, currentLimit>>
        /\ UNCHANGED nonStaticVars

(***************************************************************************)
(* Chat panel of the static client.  A string is a sequence of characters; *)
(* a JavaScript value is a record tagged with its type.                    *)
(***************************************************************************)
MaxLen == 1
MaxMessages == 2

InputChars == {" ", "a"}

\* what the user may have typed into the input
TypedValues == UNION {[1..n -> InputChars] : n \in 0..MaxLen}

Whitespace == {" ", "\n"}

RECURSIVE TrimStart(_)
TrimStart(s) ==
    IF s # <<>> /\ Head(s) \in Whitespace THEN TrimStart(Tail(s)) ELSE s

RECURSIVE TrimEnd(_)
TrimEnd(s) ==
    IF s # <<>> /\ s[Len(s)] \in Whitespace THEN TrimEnd(SubSeq(s, 1, Len(s) - 1)) ELSE s

\* String.prototype.trim
Trim(s) == TrimEnd(TrimStart(s))

\* text.split('\n\n'): the parts between the non-overlapping double newlines,
\* leftmost first; cur is the part being collected
RECURSIVE SplitParas(_, _)
SplitParas(s, cur) ==
    IF s = <<>> THEN <<cur>>
    ELSE IF Len(s) >= 2 /\ s[1] = "\n" /\ s[2] = "\n"
         THEN <<cur>> \o SplitParas(SubSeq(s, 3, Len(s)), <<>>)
         ELSE SplitParas(Tail(s), Append(cur, Head(s)))

Str(s) == [type |-> "string", value |-> s]

Undefined == [type |-> "undefined", value |-> <<>>]

Num == [type |-> "number", value |-> <<>>]

FallbackText == <<"Sorry, I encountered an error processing your request. Please try again.">>

\* the mutant of addChatMessage: the text is coerced to a string, nothing is thrown
addChatMessage_Coerce(msgs, text, sender) ==
    [threw |-> FALSE,
     msgs |-> Append(msgs, [sender |-> sender,
                            parts |-> SplitParas(IF text.type = "string" THEN text.value
                                                 ELSE <<text.type>>, <<>>)])]

\* addChatMessage(text, sender): text.split throws a TypeError, before anything
\* is appended, unless text is a string
addChatMessage(msgs, text, sender) ==
    IF text.type # "string"
    THEN [threw |-> TRUE, msgs |-> msgs]
    ELSE [threw |-> FALSE,
          msgs |-> Append(msgs, [sender |-> sender, parts |-> SplitParas(text.value, <<>>)])]

\* the texts the server answers with
Replies == {<<"o", "k">>, <<"u", "p", "\n", "\n", "n", "o">>}

\* the parsed bodies of a 2xx answer: {response: <string>}, {}, {response: 1}, null
Bodies ==
    {[kind |-> "object", response |-> Str(r)] : r \in Replies}
    \cup {[kind |-> "object", response |-> Undefined],
          [kind |-> "object", response |-> Num],
          [kind |-> "null", response |-> Undefined]}

\* how a POST /api/chat ends: fetch rejects, a non-ok status, a body that is
\* not JSON, or a parsed body
ChatOutcomes ==
    {[kind |-> k, data |-> [kind |-> "null", response |-> Undefined]] :
        k \in {"network_error", "not_ok", "bad_json"}}
    \cup {[kind |-> "json", data |-> b] : b \in Bodies}

NoOutcome == [kind |-> "none", data |-> [kind |-> "null", response |-> Undefined]]

ChatInit ==
    /\ chatInput = <<>>
    /\ chatMessages = <<>>
    /\ chatReqs = <<>>
    /\ sentCount = 0
    /\ lastSend = "none"
    /\ lastReply = [idx |-> 0, outcome |-> NoOutcome, oldest |-> TRUE]

\* the user edits the input
TypeMessage ==
    \E v \in TypedValues :
        /\ v # chatInput
        /\ chatInput' = v
        /\ UNCHANGED <<chatMessages, chatReqs, sentCount, lastSend, lastReply>>
        /\ UNCHANGED nonChatVars

\* handleSendMessage up to its await (send button or Enter)
handleSendMessage ==
    LET message == Trim(chatInput)
    IN  IF message = <<>>
        THEN /\ lastSend' = "ignored"
             /\ UNCHANGED <<chatInput, chatMessages, chatReqs, sentCount, lastReply>>
             /\ UNCHANGED nonChatVars
        ELSE /\ sentCount < MaxMessages
             /\ chatMessages' = addChatMessage(chatMessages, Str(message), "user").msgs
             /\ chatInput' = <<>>
             /\ chatReqs' = Append(chatReqs, [message |-> message])
             /\ sentCount' = sentCount + 1
             /\ lastSend' = "sent"
             /\ UNCHANGED lastReply
             /\ UNCHANGED nonChatVars

\* the transcript after the response handling of handleSendMessage: the try
\* block, and the catch block when it throws
ChatAnswered(msgs, outcome) ==
    LET fallback == addChatMessage(msgs, Str(FallbackText), "bot").msgs
    IN  IF outcome.kind # "json" \/ outcome.data.kind = "null"
        THEN fallback
        ELSE LET r == addChatMessage(msgs, outcome.data.response, "bot")
             IN  IF r.threw THEN fallback ELSE r.msgs

\* a POST /api/chat settles
ChatResponse ==
    \E i \in DOMAIN chatReqs, outcome \in ChatOutcomes :
        /\ chatMessages' = ChatAnswered(chatMessages, outcome)
        /\ chatReqs' = RemoveAt(chatReqs, i)
        /\ lastReply' = [idx |-> Len(chatMessages'), outcome |-> outcome, oldest |-> (i = 1)]
        /\ UNCHANGED <<chatInput, sentCount, lastSend>>
        /\ UNCHANGED nonChatVars

(***************************************************************************)
(* React App component.  Three variants are in the repository:             *)
(*   "Summary.js"  src/frontend/src/components/Summary.js, lines 120-273   *)
(*   "part_003"    src/unnamed/part_003                                    *)
(*   "part_002"    src/unnamed/part_002                                    *)
(* A state update of an unmounted component is a no-op.                    *)
(***************************************************************************)
MaxFetches == 2
MaxMarks == 2
NumAlerts == 2
MaxVersion == 1

Variants == {"Summary.js", "part_003", "part_002"}

\* the variants whose mount effect sets up the 5-minute interval
IntervalVariants == {"Summary.js", "part_003"}

\* the variants that define markAlertRead
MarkVariants == {"Summary.js", "part_003"}

Versions == 1..MaxVersion

AlertIds == 1..NumAlerts

ReactInit ==
    /\ variant = "none"
    /\ mounted = FALSE
    /\ interval = FALSE
    /\ summaries = 0
    /\ alerts = <<>>
    /\ tweets = 0
    /\ loading = TRUE
    /\ error = "null"
    /\ refreshing = FALSE
    /\ fetches = <<>>
    /\ reactPosts = 0
    /\ reactTimeouts = 0
    /\ marks = <<>>
    /\ lastMark = [alertId |-> 0, ok |-> FALSE, again |-> FALSE]
    /\ serverRead = {}
    /\ lastFetch = "none"

\* a setState call: ignored once the component has unmounted
SetState(cur, new) == IF mounted THEN new ELSE cur

\* GET /api/alerts: every alert, with the server's is_read
ServerAlerts == [i \in AlertIds |-> [id |-> i, is_read |-> i \in serverRead]]

\* POST /api/alerts/{id}/read: is_read becomes true, and stays true
ServerMarkRead(id) == serverRead \cup {id}

\* fetchData up to its first await, in variant v
fetchData(v, from, thenClear) ==
    /\ loading' = SetState(loading, TRUE)
    /\ error' = IF v \in {"Summary.js", "part_002"} THEN SetState(error, "null") ELSE error
    /\ fetches' = Append(fetches, [stage |-> IF v = "part_002" THEN "all" ELSE "summaries",
                                   from |-> from, thenClear |-> thenClear])

\* the first render and the mount effect: fetchData, and setInterval
Mount ==
    \E v \in Variants :
        /\ variant = "none"
        /\ variant' = v
        /\ mounted' = TRUE
        /\ interval' = (v \in IntervalVariants)
        /\ fetchData(v, "mount", FALSE)
        /\ UNCHANGED <<summaries, alerts, tweets, refreshing, reactPosts, reactTimeouts,
                       marks, lastMark, lastFetch, serverRead>>
        /\ UNCHANGED nonReactVars

\* the mutant of Unmount: the interval is not cleared
Unmount_NoClear ==
    /\ mounted
    /\ mounted' = FALSE
    /\ UNCHANGED <<variant, interval, summaries, alerts, tweets, loading, error, refreshing,
                   fetches, reactPosts, reactTimeouts, marks, lastMark, lastFetch, serverRead>>
    /\ UNCHANGED nonReactVars

\* the cleanup of the mount effect: clearInterval
Unmount ==
    /\ mounted
    /\ mounted' = FALSE
    /\ interval' = FALSE
    /\ UNCHANGED <<variant, summaries, alerts, tweets, loading, error, refreshing,
                   fetches, reactPosts, reactTimeouts, marks, lastMark, lastFetch, serverRead>>
    /\ UNCHANGED nonReactVars

\* the interval fires, every 5 minutes
IntervalTick ==
    /\ interval
    /\ Len(fetches) < MaxFetches
    /\ fetchData(variant, "interval", FALSE)
    /\ UNCHANGED <<variant, mounted, interval, summaries, alerts, tweets, refreshing,
                   reactPosts, reactTimeouts, marks, lastMark, lastFetch, serverRead>>
    /\ UNCHANGED nonReactVars

\* a GET of fetchData resolves: the next stage, or the end of the call
FetchOk ==
    \E i \in DOMAIN fetches, v \in Versions :
        LET call == fetches[i]
            done == call.stage \in {"tweets", "all"}
        IN  /\ summaries' = IF call.stage \in {"summaries", "all"}
                            THEN SetState(summaries, v) ELSE summaries
            /\ alerts' = IF call.stage \in {"alerts", "all"}
                         THEN SetState(alerts, ServerAlerts) ELSE alerts
            /\ tweets' = IF done THEN SetState(tweets, v) ELSE tweets
            /\ loading' = IF done THEN SetState(loading, FALSE) ELSE loading
            /\ refreshing' = IF done /\ call.thenClear
                             THEN SetState(refreshing, FALSE) ELSE refreshing
            /\ fetches' = IF done THEN RemoveAt(fetches, i)
                          ELSE [fetches EXCEPT ![i].stage =
                                   IF call.stage = "summaries" THEN "alerts" ELSE "tweets"]
            /\ lastFetch' = IF done THEN "ok" ELSE lastFetch
            /\ UNCHANGED <<variant, mounted, interval, error, reactPosts, reactTimeouts,
                           marks, lastMark, serverRead>>
            /\ UNCHANGED nonReactVars

\* the mutant of FetchFail: the responses that did arrive are stored
FetchFail_Partial ==
    \E i \in DOMAIN fetches, v \in Versions :
        /\ error' = SetState(error, "fetch")
        /\ loading' = SetState(loading, FALSE)
        /\ refreshing' = IF fetches[i].thenClear THEN SetState(refreshing, FALSE) ELSE refreshing
        /\ fetches' = RemoveAt(fetches, i)
        /\ lastFetch' = "fail"
        /\ summaries' = SetState(summaries, v)
        /\ UNCHANGED <<variant, mounted, interval, alerts, tweets, reactPosts,
                       reactTimeouts, marks, lastMark, serverRead>>
        /\ UNCHANGED nonReactVars

\* a GET of fetchData rejects: the catch block ends the call
FetchFail ==
    \E i \in DOMAIN fetches :
        /\ error' = SetState(error, "fetch")
        /\ loading' = SetState(loading, FALSE)
        /\ refreshing' = IF fetches[i].thenClear THEN SetState(refreshing, FALSE) ELSE refreshing
        /\ fetches' = RemoveAt(fetches, i)
        /\ lastFetch' = "fail"
        /\ UNCHANGED <<variant, mounted, interval, summaries, alerts, tweets, reactPosts,
                       reactTimeouts, marks, lastMark, serverRead>>
        /\ UNCHANGED nonReactVars

\* handleRefresh up to its await: setRefreshing(true) and the POST
AppHandleRefresh ==
    /\ mounted
    /\ reactPosts + reactTimeouts < MaxRefreshes
    /\ refreshing' = TRUE
    /\ reactPosts' = reactPosts + 1
    /\ UNCHANGED <<variant, mounted, interval, summaries, alerts, tweets, loading, error,
                   fetches, reactTimeouts, marks, lastMark, lastFetch, serverRead>>
    /\ UNCHANGED nonReactVars

\* the POST resolved: the re-fetch is scheduled (part_002: and the finally block)
AppRefreshPostOk ==
    /\ reactPosts > 0
    /\ reactPosts' = reactPosts - 1
    /\ reactTimeouts' = reactTimeouts + 1
    /\ refreshing' = IF variant = "part_002" THEN SetState(refreshing, FALSE) ELSE refreshing
    /\ UNCHANGED <<variant, mounted, interval, summaries, alerts, tweets, loading, error,
                   fetches, marks, lastMark, lastFetch, serverRead>>
    /\ UNCHANGED nonReactVars

\* the mutant of AppRefreshPostFail: the catch block leaves refreshing set
AppRefreshPostFail_NoClear ==
    /\ reactPosts > 0
    /\ reactPosts' = reactPosts - 1
    /\ error' = SetState(error, "refresh")
    /\ UNCHANGED <<variant, mounted, interval, summaries, alerts, tweets, loading, refreshing,
                   fetches, reactTimeouts, marks, lastMark, lastFetch, serverRead>>
    /\ UNCHANGED nonReactVars

\* the POST rejected: the catch block
AppRefreshPostFail ==
    /\ reactPosts > 0
    /\ reactPosts' = reactPosts - 1
    /\ error' = SetState(error, "refresh")
    /\ refreshing' = SetState(refreshing, FALSE)
    /\ UNCHANGED <<variant, mounted, interval, summaries, alerts, tweets, loading,
                   fetches, reactTimeouts, marks, lastMark, lastFetch, serverRead>>
    /\ UNCHANGED nonReactVars

\* the setTimeout callback of handleRefresh
AppRefreshTimeout ==
    /\ reactTimeouts > 0
    /\ Len(fetches) < MaxFetches
    /\ reactTimeouts' = reactTimeouts - 1
    /\ fetchData(variant, "refresh", variant = "part_003")
    /\ refreshing' = IF variant = "Summary.js" THEN SetState(refreshing, FALSE) ELSE refreshing
    /\ UNCHANGED <<variant, mounted, interval, summaries, alerts, tweets, reactPosts,
                   marks, lastMark, lastFetch, serverRead>>
    /\ UNCHANGED nonReactVars

\* the main content, with the alerts, is rendered
FeedVisible ==
    /\ mounted
    /\ CASE variant = "part_003" -> ~(loading /\ ~refreshing) /\ error = "null"
         [] OTHER -> ~loading

\* the alerts handed to FeedContainer
AlertsShown ==
    {i \in DOMAIN alerts : variant = "Summary.js" => ~alerts[i].is_read}

\* the mutant of MarkedRead: the flag is toggled
MarkedRead_Toggle(as, alertId) ==
    [i \in DOMAIN as |->
        IF as[i].id = alertId THEN [as[i] EXCEPT !.is_read = ~as[i].is_read] ELSE as[i]]

\* alerts.map(alert => alert.id === alertId ? { ...alert, is_read: true } : alert)
MarkedRead(as, alertId) ==
    [i \in DOMAIN as |->
        IF as[i].id = alertId THEN [as[i] EXCEPT !.is_read = TRUE] ELSE as[i]]

\* markAlertRead(alertId) up to its await; the closure holds the alerts of the
\* render it was created in
markAlertRead ==
    \E i \in AlertsShown :
        /\ variant \in MarkVariants
        /\ FeedVisible
        /\ Len(marks) < MaxMarks
        /\ marks' = Append(marks, [alertId |-> alerts[i].id, alerts |-> alerts])
        /\ UNCHANGED <<variant, mounted, interval, summaries, alerts, tweets, loading, error,
                       refreshing, fetches, reactPosts, reactTimeouts, lastMark, lastFetch, serverRead>>
        /\ UNCHANGED nonReactVars

\* the POST of markAlertRead resolved: setAlerts on the alerts of the closure
MarkOk ==
    \E i \in DOMAIN marks :
        LET call == marks[i]
        IN  /\ serverRead' = ServerMarkRead(call.alertId)
            /\ alerts' = SetState(alerts, MarkedRead(call.alerts, call.alertId))
            /\ marks' = RemoveAt(marks, i)
            /\ lastMark' = [alertId |-> call.alertId, ok |-> TRUE,
                            again |-> /\ call.alertId \in serverRead
                                      /\ call.alerts = alerts
                                      /\ \E j \in DOMAIN alerts :
                                             /\ alerts[j].id = call.alertId
                                             /\ alerts[j].is_read]
            /\ UNCHANGED <<variant, mounted, interval, summaries, tweets, loading, error,
                           refreshing, fetches, reactPosts, reactTimeouts, lastFetch>>
            /\ UNCHANGED nonReactVars

\* the POST of markAlertRead rejected: part_003 sets the error, Summary.js logs it
MarkFail ==
    \E i \in DOMAIN marks :
        /\ error' = IF variant = "part_003" THEN SetState(error, "mark") ELSE error
        /\ marks' = RemoveAt(marks, i)
        /\ lastMark' = [alertId |-> marks[i].alertId, ok |-> FALSE, again |-> FALSE]
        /\ UNCHANGED <<variant, mounted, interval, summaries, alerts, tweets, loading,
                       refreshing, fetches, reactPosts, reactTimeouts, serverRead, lastFetch>>
        /\ UNCHANGED nonReactVars

(***************************************************************************)
(* Rendering: the Summary component and renderAlerts.  A JavaScript number *)
(* or undefined is a record tagged with its type; a sentiment score is in  *)
(* thousandths.                                                            *)
(***************************************************************************)
MaxCount == 2
MaxCryptos == 1
MaxImportance == 6
MaxCards == 2

\* 0.05, in thousandths
Threshold == 50

\* the dots of an alert card
NumDots == 5

\* the trending coins shown
MaxShown == 6

JsNum(n) == [type |-> "number", value |-> n]

JsUndefined == [type |-> "undefined", value |-> 0]

\* a >= b and a <= b of JavaScript for a number b: false unless a is a number
JsGe(a, b) == a.type = "number" /\ a.value >= b

JsLe(a, b) == a.type = "number" /\ a.value <= b

\* b <= a of JavaScript for a number b
JsLeOf(b, a) == a.type = "number" /\ b <= a.value

\* a || 0
OrZero(a) == IF a.type = "number" /\ a.value # 0 THEN a.value ELSE 0

\* Math.round(num / den * 100) for num >= 0 and den > 0: halves go up
RoundPercent(num, den) == (200 * num + den) \div (2 * den)

\* the sentiment scores a coin may come with: around both thresholds, the
\* ends of the scale, and none
Scores == {JsNum(n) : n \in {-1000, -51, -50, -49, 0, 49, 50, 51, 1000}} \cup {JsUndefined}

Counts == {JsNum(n) : n \in 0..MaxCount} \cup {JsUndefined}

\* summary.sentiment_overview: missing, or an object whose counts may be missing
Overviews ==
    {[present |-> FALSE, bullish |-> JsUndefined, bearish |-> JsUndefined,
      neutral |-> JsUndefined]}
    \cup [present : {TRUE}, bullish : Counts, bearish : Counts, neutral : Counts]

\* summary.trending_cryptos: the sentiments of the coins
TrendingLists == UNION {[1..n -> Scores] : n \in 0..MaxCryptos}

\* the summary prop: null, or a summary
SummaryProps ==
    [present : {FALSE}, overview : {CHOOSE o \in Overviews : ~o.present}, trending : {<<>>}]
    \cup [present : {TRUE}, overview : Overviews, trending : TrendingLists]

NoSentimentData == [present |-> FALSE, bullishPercent |-> 0, bearishPercent |-> 0,
                    neutralPercent |-> 0, total |-> 0]

\* the mutant of generateSentimentData: the total is not tested, and the
\* percentages of a zero total are NaN (0 here)
generateSentimentData_NoZeroCheck(summary) ==
    LET bullish == IF summary.overview.present THEN OrZero(summary.overview.bullish) ELSE 0
        bearish == IF summary.overview.present THEN OrZero(summary.overview.bearish) ELSE 0
        neutral == IF summary.overview.present THEN OrZero(summary.overview.neutral) ELSE 0
        total == bullish + bearish + neutral
    IN  [present |-> TRUE,
         bullishPercent |-> IF total = 0 THEN 0 ELSE RoundPercent(bullish, total),
         bearishPercent |-> IF total = 0 THEN 0 ELSE RoundPercent(bearish, total),
         neutralPercent |-> IF total = 0 THEN 0 ELSE RoundPercent(neutral, total),
         total |-> total]

\* generateSentimentData: null (NoSentimentData) when the total is 0
generateSentimentData(summary) ==
    LET bullish == IF summary.overview.present THEN OrZero(summary.overview.bullish) ELSE 0
        bearish == IF summary.overview.present THEN OrZero(summary.overview.bearish) ELSE 0
        neutral == IF summary.overview.present THEN OrZero(summary.overview.neutral) ELSE 0
        total == bullish + bearish + neutral
    IN  IF total = 0 THEN NoSentimentData
        ELSE [present |-> TRUE,
              bullishPercent |-> RoundPercent(bullish, total),
              bearishPercent |-> RoundPercent(bearish, total),
              neutralPercent |-> RoundPercent(neutral, total),
              total |-> total]

\* the mutant of TrendLabel: the thresholds are exclusive
TrendLabel_Exclusive(sentiment) ==
    IF JsGe(sentiment, Threshold + 1) THEN "Bullish"
    ELSE IF JsLe(sentiment, -Threshold - 1) THEN "Bearish"
    ELSE "Neutral"

\* the text of the label of a trending coin
TrendLabel(sentiment) ==
    IF JsGe(sentiment, Threshold) THEN "Bullish"
    ELSE IF JsLe(sentiment, -Threshold) THEN "Bearish"
    ELSE "Neutral"

\* the colour class of the label of a trending coin
TrendColour(sentiment) ==
    IF JsGe(sentiment, Threshold) THEN "text-green-400"
    ELSE IF JsLe(sentiment, -Threshold) THEN "text-red-400"
    ELSE "text-gray-400"

\* trending_cryptos.slice(0, 6)
Slice6(s) == SubSeq(s, 1, IF Len(s) < MaxShown THEN Len(s) ELSE MaxShown)

NoCard == [rendered |-> FALSE, content |-> FALSE, overview |-> NoSentimentData,
           trending |-> <<>>]

\* what Summary renders: nothing for a null summary; else the content, the
\* Sentiment Overview block when there is sentiment data, and the labels of
\* the first trending coins
SummaryCard(summary) ==
    IF ~summary.present THEN NoCard
    ELSE [rendered |-> TRUE,
          content |-> TRUE,
          overview |-> generateSentimentData(summary),
          trending |-> [i \in DOMAIN Slice6(summary.trending) |->
                           [label |-> TrendLabel(summary.trending[i]),
                            colour |-> TrendColour(summary.trending[i])]]]

\* the importance of an alert: a number, or missing
Importances == {JsNum(n) : n \in -1..MaxImportance} \cup {JsUndefined}

\* the mutant of ImportanceDots: as many dots as the importance
ImportanceDots_Unbounded(importance) ==
    [i \in 1..(IF importance.type = "number" /\ importance.value > 0
               THEN importance.value ELSE 0) |-> TRUE]

\* the importance dots of renderAlerts: dot i is active when i <= importance
ImportanceDots(importance) == [i \in 1..NumDots |-> JsLeOf(i, importance)]

\* the alerts of a response: the importance of each
AlertLists == UNION {[1..n -> Importances] : n \in 0..MaxCards}

NoSummaryView == [summary |-> CHOOSE p \in SummaryProps : ~p.present, done |-> FALSE,
                  card |-> NoCard]

NoAlertsView == [alerts |-> <<>>, done |-> FALSE, cards |-> <<>>]

ViewInit ==
    /\ summaryView = NoSummaryView
    /\ alertsView = NoAlertsView

\* a summary to render: any
SummaryInit ==
    /\ summaryView \in {[summary |-> p, done |-> FALSE, card |-> NoCard] : p \in SummaryProps}
    /\ alertsView = NoAlertsView

\* alerts to render: any
AlertCardsInit ==
    /\ summaryView = NoSummaryView
    /\ alertsView \in {[alerts |-> as, done |-> FALSE, cards |-> <<>>] : as \in AlertLists}

\* Summary is rendered with its summary prop
RenderSummary ==
    /\ summaryView' = [summaryView EXCEPT !.done = TRUE,
                                           !.card = SummaryCard(summaryView.summary)]
    /\ UNCHANGED alertsView
    /\ UNCHANGED nonViewVars

\* renderAlerts(alerts), into the container fetchAlerts has emptied
renderAlerts ==
    /\ alertsView' = [alertsView EXCEPT !.done = TRUE, !.cards =
                         [i \in DOMAIN alertsView.alerts |->
                             [importance |-> alertsView.alerts[i],
                              dots |-> ImportanceDots(alertsView.alerts[i])]]]
    /\ UNCHANGED summaryView
    /\ UNCHANGED nonViewVars

(***************************************************************************)
(* TaskList component: handleToggleComplete.  The reload of the page       *)
(* aborts the requests in flight and renders the list with the tasks the   *)
(* server then has.                                                        *)
(***************************************************************************)
NumTasks == 2
MaxPatches == 2

TaskIds == 1..NumTasks

\* the ids handleToggleComplete may be called with: those of the tasks, and one of none
CallIds == 1..(NumTasks + 1)

NoToggle == [taskId |-> 0, known |-> FALSE, sent |-> FALSE]

NoPatch == [outcome |-> "none", reloaded |-> FALSE, alerted |-> FALSE]

\* nothing is pending; the tasks are TaskInit's or any
IdleTasks ==
    /\ patchReqs = <<>>
    /\ lastToggle = NoToggle
    /\ lastPatch = NoPatch

TaskInit ==
    /\ tasks = [t \in TaskIds |-> FALSE]
    /\ IdleTasks

TaskListInit ==
    /\ tasks \in [TaskIds -> BOOLEAN]
    /\ IdleTasks

\* tasks.find(t => t.id === taskId) found a task
Found(taskId) == taskId \in DOMAIN tasks

\* handleToggleComplete(taskId) up to its await
handleToggleComplete ==
    \E taskId \in CallIds :
        /\ Len(patchReqs) < MaxPatches
        /\ patchReqs' = IF Found(taskId)
                        THEN Append(patchReqs, [taskId |-> taskId, completed |-> ~tasks[taskId]])
                        ELSE patchReqs
        /\ lastToggle' = [taskId |-> taskId, known |-> Found(taskId),
                          sent |-> Len(patchReqs') > Len(patchReqs)]
        /\ UNCHANGED <<tasks, lastPatch>>
        /\ UNCHANGED nonTaskVars

\* the mutant of AfterPatch: the page is reloaded whatever the response is
AfterPatch_AlwaysReload(outcome) ==
    [outcome |-> outcome, reloaded |-> TRUE, alerted |-> outcome # "ok"]

\* handleToggleComplete after its await: window.location.reload() for an ok
\* response, the alert of the catch block for any other outcome
AfterPatch(outcome) ==
    [outcome |-> outcome, reloaded |-> outcome = "ok", alerted |-> outcome # "ok"]

\* a PATCH got an ok response
PatchOk ==
    \E i \in DOMAIN patchReqs, reloadedTasks \in [TaskIds -> BOOLEAN] :
        /\ lastPatch' = AfterPatch("ok")
        /\ patchReqs' = IF lastPatch'.reloaded THEN <<>> ELSE RemoveAt(patchReqs, i)
        /\ tasks' = IF lastPatch'.reloaded THEN reloadedTasks ELSE tasks
        /\ UNCHANGED lastToggle
        /\ UNCHANGED nonTaskVars

\* a PATCH got a response that is not ok, or fetch rejected
PatchFail ==
    \E i \in DOMAIN patchReqs, outcome \in {"not_ok", "network_error"} :
        /\ lastPatch' = AfterPatch(outcome)
        /\ patchReqs' = IF lastPatch'.reloaded THEN <<>> ELSE RemoveAt(patchReqs, i)
        /\ UNCHANGED <<tasks, lastToggle>>
        /\ UNCHANGED nonTaskVars

(***************************************************************************)
(* Specifications                                                          *)
(***************************************************************************)
Init == StaticInit /\ ChatInit /\ ReactInit /\ ViewInit /\ TaskInit

NextStatic ==
    \/ DOMContentLoaded
    \/ ClickRefresh
    \/ ClickRefreshDisabled
    \/ RefreshPostOk
    \/ RefreshPostFail
    \/ RefreshTimer
    \/ RefreshReset
    \/ handleLoadMore
    \/ ClickFilter
    \/ TweetsResponse
    \/ SummariesResponse
    \/ AlertsResponse

\* the static client: page load, refresh, pagination, filters
SpecStatic == Init /\ [][NextStatic]_vars

NextRefresh ==
    \/ DOMContentLoaded
    \/ ClickRefresh
    \/ ClickRefreshDisabled
    \/ RefreshPostOk
    \/ RefreshPostFail
    \/ RefreshTimer
    \/ RefreshReset
    \/ TweetsResponse
    \/ SummariesResponse
    \/ AlertsResponse

\* the static client: page load and the refresh button, the list left as loaded
SpecRefresh == Init /\ [][NextRefresh]_vars

NextTweets ==
    \/ DOMContentLoaded
    \/ handleLoadMore
    \/ ClickFilter
    \/ TweetsResponse

\* the static client: page load and the tweet list with its Load More and
\* filter buttons
SpecTweets == Init /\ [][NextTweets]_vars

NextChat ==
    \/ TypeMessage
    \/ handleSendMessage
    \/ ChatResponse

\* a fetch always settles: its promise is resolved or rejected
SpecChat == Init /\ [][NextChat]_vars /\ WF_vars(ChatResponse)

NextReact ==
    \/ Mount
    \/ Unmount
    \/ IntervalTick
    \/ FetchOk
    \/ FetchFail
    \/ AppHandleRefresh
    \/ AppRefreshPostOk
    \/ AppRefreshPostFail
    \/ AppRefreshTimeout

\* the App component: its data, its polling and its refresh button
SpecReact == Init /\ [][NextReact]_vars

NextPolling ==
    \/ Mount
    \/ Unmount
    \/ IntervalTick
    \/ FetchOk
    \/ FetchFail

\* the App component: its mount fetch and its 5-minute polling
SpecPolling == Init /\ [][NextPolling]_vars

NextAlerts ==
    \/ Mount
    \/ Unmount
    \/ FetchOk
    \/ FetchFail
    \/ markAlertRead
    \/ MarkOk
    \/ MarkFail

\* the App component: its first fetch and its alerts being marked as read
SpecAlerts == Init /\ [][NextAlerts]_vars

\* a page runs one client, the static one or one of the React Apps, and
\* stays open
NextRefreshing ==
    \/ (variant = "none" /\ DOMContentLoaded)
    \/ ClickRefresh
    \/ ClickRefreshDisabled
    \/ RefreshPostOk
    \/ RefreshPostFail
    \/ RefreshTimer
    \/ RefreshReset
    \/ TweetsResponse
    \/ SummariesResponse
    \/ AlertsResponse
    \/ (~loaded /\ Mount)
    \/ FetchOk
    \/ FetchFail
    \/ AppHandleRefresh
    \/ AppRefreshPostOk
    \/ AppRefreshPostFail
    \/ AppRefreshTimeout

\* a pending step of a refresh of the static client: the response to the POST,
\* or a timer callback
RefreshSettles == RefreshPostOk \/ RefreshPostFail \/ RefreshTimer \/ RefreshReset

\* a pending step of a refresh or of a fetchData of a React App
AppSettles ==
    AppRefreshPostOk \/ AppRefreshPostFail \/ AppRefreshTimeout \/ FetchOk \/ FetchFail

\* the refresh button of every client. The event loop never stops while a
\* response or a timer callback is pending: a request settles (its promise
\* is resolved or rejected) and the callback of a setTimeout runs.
SpecRefreshing ==
    /\ Init
    /\ [][NextRefreshing]_vars
    /\ WF_vars(RefreshSettles)
    /\ WF_vars(AppSettles)

InitSummary == StaticInit /\ ChatInit /\ ReactInit /\ SummaryInit /\ TaskInit

\* the Summary component, for any summary prop
SpecSummary == InitSummary /\ [][RenderSummary]_vars

InitAlertCards == StaticInit /\ ChatInit /\ ReactInit /\ AlertCardsInit /\ TaskInit

\* renderAlerts of the static client, for any alerts
SpecAlertCards == InitAlertCards /\ [][renderAlerts]_vars

InitTasks == StaticInit /\ ChatInit /\ ReactInit /\ ViewInit /\ TaskListInit

NextTasks ==
    \/ handleToggleComplete
    \/ PatchOk
    \/ PatchFail

\* the TaskList component, for any tasks
SpecTasks == InitTasks /\ [][NextTasks]_vars

(***************************************************************************)
(* Claims about the static client                                          *)
(***************************************************************************)
RefreshInProgress == refreshPosts + refreshTimers + resetTimers

\* C1: while a refresh started by handleRefresh is in progress (from the click
\* until the button is enabled again) the button is disabled, so that further
\* clicks start nothing: exactly one refresh is executing, and at most one
\* POST /api/refresh is outstanding at any time.
C1_RefreshCoalesced ==
    /\ refreshPosts <= 1
    /\ RefreshInProgress <= 1
    /\ refreshBtn.disabled <=> (RefreshInProgress = 1)

\* a click arrived while the POST of the refresh in progress was outstanding
C1_Witness == droppedClicks /\ refreshPosts = 1 /\ refreshBtn.disabled

\* C3: a POST /api/refresh that returned successfully is followed, once its
\* timer has fired, by a request to each of the three read endpoints, and a POST
\* that failed is followed by none.
C3_RereadAfterRefresh ==
    /\ reread.post = "failed" => reread.sent = {}
    /\ reread.fired => reread.sent = Endpoints

\* C5: of the tweets requests sent since the last reset of the list, the first
\* asks for page 1 and each later one for the page after the one before it,
\* with the same limit.
C5_ContiguousPages ==
    /\ Len(sentPages) = 1 => sentPages[1].page = 1
    /\ Len(sentPages) = 2 =>
          /\ sentPages[2].page = sentPages[1].page + 1
          /\ sentPages[2].limit = sentPages[1].limit

\* C6: once no tweets request is in flight, every tweet in the container was
\* requested with the filter that is selected, and a request that resets the
\* list asks for page 1.
C6_FilteredList ==
    /\ \A i \in DOMAIN tweetReqs : tweetReqs[i].reset => tweetReqs[i].url.page = 1
    /\ tweetReqs = <<>> => \A f \in tweetsContainer.items : f = currentSentimentFilter

\* the tweets request a step has sent, if it has sent one
SentTweets == tweetReqs'[Len(tweetReqs')]

\* C16: a GET /api/tweets request carries limit and page, and carries
\* sentiment exactly when the filter selected at the moment it is sent is not
\* 'all', with that filter as its value.
C16_TweetsUrl ==
    [][Len(tweetReqs') > Len(tweetReqs) =>
          /\ {"limit", "page"} \subseteq DOMAIN SentTweets.url
          /\ "sentiment" \in DOMAIN SentTweets.url <=> currentSentimentFilter' # "all"
          /\ "sentiment" \in DOMAIN SentTweets.url =>
                 SentTweets.url.sentiment = currentSentimentFilter']_vars

\* a request with the sentiment parameter is in flight, the filter being bullish
C16_Witness ==
    /\ currentSentimentFilter = "bullish"
    /\ Len(tweetReqs) = 1
    /\ "sentiment" \in DOMAIN tweetReqs[1].url
    /\ tweetReqs[1].url.sentiment = "bullish"

\* C17: at most one tweets request is in flight, and isLoading is true exactly
\* while one is; while isLoading is true no request is sent and, until the
\* request in flight ends, the list and the Load More button are left alone;
\* the end of a request, successful or failed, leaves isLoading false.
C17_SingleInFlight ==
    /\ [](Len(tweetReqs) <= 1 /\ (isLoading <=> Len(tweetReqs) = 1))
    /\ [][isLoading =>
              /\ Len(tweetReqs') <= Len(tweetReqs)
              /\ Len(tweetReqs') = Len(tweetReqs) =>
                     tweetsContainer' = tweetsContainer /\ loadMoreBtn' = loadMoreBtn]_vars
    /\ [][Len(tweetReqs') < Len(tweetReqs) => ~isLoading']_vars

\* Load More was clicked while the request of the page load was in flight:
\* the page was counted, nothing was sent
C17_Witness ==
    /\ isLoading
    /\ Len(tweetReqs) = 1
    /\ tweetReqs[1].url.page = 1
    /\ currentPage = 2

\* C12: once no GET /api/summaries is outstanding, what the live summary shows
\* came from the request issued last.
C12_LatestSummary ==
    (summReqs = <<>> /\ liveSummary.kind # "initial") => liveSummary.latest

(***************************************************************************)
(* Claims about the chat panel                                             *)
(***************************************************************************)
\* the text a chat message shows: its parts with the two line breaks between them
RECURSIVE JoinParas(_)
JoinParas(parts) ==
    IF Len(parts) = 1 THEN parts[1]
    ELSE parts[1] \o <<"\n", "\n">> \o JoinParas(Tail(parts))

CountFrom(sender) ==
    Cardinality({i \in DOMAIN chatMessages : chatMessages[i].sender = sender})

\* what the bot message for a response must say
ExpectedReply(outcome) ==
    IF /\ outcome.kind = "json"
       /\ outcome.data.kind = "object"
       /\ outcome.data.response.type = "string"
    THEN outcome.data.response.value
    ELSE FallbackText

C10_Answered ==
    /\ CountFrom("user") = sentCount
    /\ CountFrom("bot") + Len(chatReqs) = sentCount
    /\ lastReply.idx # 0 =>
          /\ chatMessages[lastReply.idx].sender = "bot"
          /\ JoinParas(chatMessages[lastReply.idx].parts) = ExpectedReply(lastReply.outcome)

C10_Sent ==
    (chatMessages' # chatMessages \/ chatReqs' # chatReqs) /\ Len(chatReqs') >= Len(chatReqs) =>
        /\ Trim(chatInput) # <<>>
        /\ chatReqs' = Append(chatReqs, [message |-> Trim(chatInput)])
        /\ chatMessages' = Append(chatMessages, [sender |-> "user",
                                                 parts |-> SplitParas(Trim(chatInput), <<>>)])

\* C10: a message that is not empty after trimming is shown and posted as
\* {message}, and is eventually answered by exactly one bot message, which
\* shows the server's response when the POST succeeded with a string response
\* and the fallback text on any failure; an empty message sends and appends
\* nothing.
C10_ChatNeverFaults ==
    /\ []C10_Answered
    /\ [][C10_Sent]_vars
    /\ \A n \in 1..MaxMessages : (sentCount >= n) ~> (CountFrom("bot") >= n)

\* every message was answered, the last one by the fallback for a 2xx body
\* without a response, and an empty message was ignored after it
C10_Witness ==
    /\ lastReply.idx # 0
    /\ lastReply.outcome.kind = "json"
    /\ lastReply.outcome.data.kind = "object"
    /\ lastReply.outcome.data.response.type = "undefined"
    /\ sentCount = 2
    /\ CountFrom("bot") = 2
    /\ lastSend = "ignored"

(***************************************************************************)
(* Claims about the React App component                                    *)
(***************************************************************************)

\* C2: while refreshing is true, an invocation of handleRefresh issues no
\* further POST /api/refresh.
C2_RefreshCoalesced == [][refreshing => reactPosts' <= reactPosts]_vars

\* the fetchData call a step has started, if it has started one
StartedFetch == fetches'[Len(fetches')]

\* C4: fetchData runs on mount, once; while the component is mounted its
\* 5-minute timer is active and each tick of it runs fetchData; an unmounted
\* component has no active timer and no tick runs fetchData for it.
C4_Polling ==
    /\ [](variant \in IntervalVariants => (interval <=> mounted))
    /\ [][(variant = "none" /\ variant' # "none") =>
              /\ Len(fetches') = 1
              /\ StartedFetch.from = "mount"]_vars
    /\ [][Len(fetches') > Len(fetches) =>
              /\ StartedFetch.from = "mount" <=> variant = "none"
              /\ StartedFetch.from = "interval" =>
                     mounted /\ interval /\ variant \in IntervalVariants]_vars

\* the component has unmounted while a fetchData of its timer was in flight
C4_Witness ==
    /\ variant \in IntervalVariants
    /\ ~mounted
    /\ \E i \in DOMAIN fetches : fetches[i].from = "interval"

\* a step in which a fetchData call of the mounted component ended
FetchEnded == mounted /\ Len(fetches') < Len(fetches)

\* C18: in the App that loads with Promise.all, a fetchData call that fails
\* leaves summaries, alerts and tweets as they were, sets error and ends with
\* loading false; one that succeeds replaces all three with the responses,
\* leaves error as fetchData set it when it started (null) and ends with
\* loading false.
C18_AllOrNothing ==
    /\ [][(variant = "part_002" /\ FetchEnded) =>
              /\ ~loading'
              /\ IF lastFetch' = "fail"
                 THEN /\ summaries' = summaries
                      /\ alerts' = alerts
                      /\ tweets' = tweets
                      /\ error' # "null"
                 ELSE /\ summaries' \in Versions
                      /\ alerts' = ServerAlerts
                      /\ tweets' \in Versions
                      /\ error' = error]_vars
    /\ [][(variant' = "part_002" /\ mounted' /\ Len(fetches') > Len(fetches)) =>
              error' = "null" /\ loading']_vars

\* the first fetchData of the Promise.all App has failed: nothing was stored
C18_Witness ==
    /\ variant = "part_002"
    /\ mounted
    /\ lastFetch = "fail"
    /\ fetches = <<>>
    /\ summaries = 0
    /\ alerts = <<>>
    /\ tweets = 0
    /\ error = "fetch"
    /\ ~loading

\* C19: while the App is mounted, loading is true exactly while some
\* fetchData call is in flight.
C19_LoadingFlag == mounted => (loading <=> fetches # <<>>)

\* C20: in the App that fetches in sequence, a fetchData call that ends
\* successfully leaves error null.
C20_ErrorNotSticky ==
    [][(variant = "part_003" /\ FetchEnded /\ lastFetch' = "ok") => error' = "null"]_vars

IsRead(as, alertId) == \E i \in DOMAIN as : as[i].id = alertId /\ as[i].is_read

\* a step in which a markAlertRead call of the mounted component completed
MarkCompleted == mounted /\ Len(marks') < Len(marks)

\* C7: when the POST of markAlertRead succeeds, the alert with that id is read
\* and every other alert is as it was; when it fails the alerts are as they were.
C7_MarkFrame ==
    [][MarkCompleted =>
          /\ DOMAIN alerts' = DOMAIN alerts
          /\ \A i \in DOMAIN alerts :
                 alerts'[i] = IF lastMark'.ok /\ alerts[i].id = lastMark'.alertId
                              THEN [id |-> alerts[i].id, is_read |-> TRUE]
                              ELSE alerts[i]]_vars

\* C8: a markAlertRead call that succeeds for an alert a successful call has
\* already marked read, with no other change of the alerts in between, leaves
\* the alert read, the alerts as they were and the error as it was.
C8_Idempotent ==
    [][(MarkCompleted /\ lastMark'.again) =>
          /\ IsRead(alerts', lastMark'.alertId)
          /\ alerts' = alerts
          /\ error' = error]_vars

\* a second call in sequence has succeeded, no error is shown
C8_Witness ==
    /\ mounted
    /\ lastMark.ok
    /\ lastMark.again
    /\ IsRead(alerts, lastMark.alertId)
    /\ error = "null"
    /\ marks = <<>>

\* C9: the completion of a markAlertRead call leaves every alert that is read
\* read.
C9_ReadMonotone ==
    [][MarkCompleted =>
          \A i \in DOMAIN alerts :
              alerts[i].is_read => i \in DOMAIN alerts' /\ alerts'[i].is_read]_vars

(***************************************************************************)
(* Claims about rendering                                                  *)
(***************************************************************************)

\* the label and the colour class the classification policy gives a score
PolicyLabel(score) ==
    IF score.type = "number" /\ score.value >= 50 THEN "Bullish"
    ELSE IF score.type = "number" /\ score.value <= -50 THEN "Bearish"
    ELSE "Neutral"

PolicyColour(label) ==
    CASE label = "Bullish" -> "text-green-400"
      [] label = "Bearish" -> "text-red-400"
      [] label = "Neutral" -> "text-gray-400"

\* C11: each trending coin shown is labelled Bullish exactly when its score
\* is at least +0.05, Bearish exactly when it is at most -0.05 and Neutral
\* otherwise, and the colour class is the one of the label.
C11_TrendLabel ==
    (summaryView.done /\ summaryView.summary.present) =>
    /\ Len(summaryView.card.trending) =
           IF Len(summaryView.summary.trending) < 6 THEN Len(summaryView.summary.trending) ELSE 6
    /\ \A i \in DOMAIN summaryView.card.trending :
        /\ summaryView.card.trending[i].label = PolicyLabel(summaryView.summary.trending[i])
        /\ summaryView.card.trending[i].colour =
               PolicyColour(summaryView.card.trending[i].label)

\* a coin whose score is exactly +0.05 is shown, labelled Bullish
C11_Witness ==
    /\ summaryView.done
    /\ summaryView.card.rendered
    /\ Len(summaryView.card.trending) >= 1
    /\ summaryView.summary.trending[1] = JsNum(50)
    /\ summaryView.card.trending[1].label = "Bullish"

\* the number of active dots of a card
ActiveDots(dots) == Cardinality({i \in DOMAIN dots : dots[i]})

\* C13: every alert card has exactly 5 dots; an integer importance in 1..5
\* activates exactly that many, one below 1 none, one above 5 all five.
C13_ImportanceDots ==
    alertsView.done =>
    /\ Len(alertsView.cards) = Len(alertsView.alerts)
    /\ \A c \in DOMAIN alertsView.cards :
        LET card == alertsView.cards[c]
            imp == card.importance
        IN  /\ Len(card.dots) = 5
            /\ imp.type = "number" =>
                   ActiveDots(card.dots) =
                       IF imp.value < 1 THEN 0 ELSE IF imp.value > 5 THEN 5 ELSE imp.value
            /\ imp.type = "number" /\ imp.value \in 1..5 =>
                   \A i \in 1..5 : card.dots[i] <=> i <= imp.value

\* an alert of importance 6 is drawn with five active dots
C13_Witness ==
    /\ Len(alertsView.cards) >= 1
    /\ alertsView.cards[1].importance = JsNum(6)
    /\ ActiveDots(alertsView.cards[1].dots) = 5

\* the counts of a summary are all zero or missing
ZeroCounts(summary) ==
    \/ ~summary.overview.present
    \/ \A c \in {summary.overview.bullish, summary.overview.bearish, summary.overview.neutral} :
           c.type = "undefined" \/ c.value = 0

\* C14: a summary whose counts are all zero or missing is rendered: its
\* content is shown and the Sentiment Overview block is omitted (no percentage
\* is computed from the zero total).
C14_ZeroCounts ==
    (summaryView.done /\ summaryView.summary.present /\ ZeroCounts(summaryView.summary)) =>
        /\ summaryView.card.rendered
        /\ summaryView.card.content
        /\ ~summaryView.card.overview.present
        /\ generateSentimentData(summaryView.summary) = NoSentimentData

\* a summary with the three counts present and zero has been rendered
C14_Witness ==
    /\ summaryView.summary.present
    /\ summaryView.summary.overview.present
    /\ summaryView.summary.overview.bullish = JsNum(0)
    /\ summaryView.summary.overview.bearish = JsNum(0)
    /\ summaryView.summary.overview.neutral = JsNum(0)
    /\ summaryView.done
    /\ summaryView.card.rendered

(***************************************************************************)
(* Claims about the TaskList component                                     *)
(***************************************************************************)

\* the PATCH a step has sent, if it has sent one
SentPatch == patchReqs'[Len(patchReqs')]

\* C15: handleToggleComplete sends a PATCH exactly when the id is in the task
\* list, with completed the negation of the task's value; after a PATCH the
\* page is reloaded exactly when the response was ok, and a failed PATCH shows
\* the alert and reloads nothing.
C15_ReloadOnSuccess ==
    /\ [](lastToggle.sent <=> (lastToggle.known /\ lastToggle.taskId \in TaskIds))
    /\ [](lastPatch.outcome # "none" =>
             /\ lastPatch.reloaded <=> lastPatch.outcome = "ok"
             /\ lastPatch.outcome # "ok" => lastPatch.alerted /\ ~lastPatch.reloaded)
    /\ [][Len(patchReqs') > Len(patchReqs) =>
              /\ SentPatch.taskId \in TaskIds
              /\ SentPatch.completed = ~tasks[SentPatch.taskId]]_vars
    /\ [][(Len(patchReqs') < Len(patchReqs) /\ ~lastPatch'.reloaded) =>
              tasks' = tasks /\ Len(patchReqs') = Len(patchReqs) - 1]_vars

\* a PATCH has failed with another one in flight: the alert, no reload
C15_Witness ==
    /\ lastPatch.outcome = "not_ok"
    /\ lastPatch.alerted
    /\ ~lastPatch.reloaded
    /\ Len(patchReqs) = 1
    /\ lastToggle.sent

(***************************************************************************)
(* Claims about the refreshing indication                                  *)
(***************************************************************************)
\* the static client shows a refresh in progress
ButtonBusy == refreshBtn.disabled \/ refreshBtn.textContent # "Refresh Feed"

\* the React App shows a refresh in progress
RefreshingShown == mounted /\ refreshing

\* C21: after handleRefresh was invoked, the refreshing indication is
\* eventually cleared, whether the POST succeeds or fails: in the static
\* client the button is enabled again with the label 'Refresh Feed', in the
\* React Apps refreshing is false again.
C21_RefreshingCleared ==
    /\ ButtonBusy ~> (~refreshBtn.disabled /\ refreshBtn.textContent = "Refresh Feed")
    /\ RefreshingShown ~> ~refreshing

\* a refresh of a React App failed at its POST, and the flag is cleared
C21_Witness ==
    /\ mounted
    /\ error = "refresh"
    /\ ~refreshing
    /\ reactPosts = 0
    /\ reactTimeouts = 0

\* a re-fetch that handleRefresh scheduled is pending or running
RefetchOutstanding ==
    \/ reactTimeouts > 0
    \/ \E i \in DOMAIN fetches : fetches[i].from = "refresh"

\* C22: in the React Apps refreshing stays true from the start of
\* handleRefresh until the re-fetch it schedules after a successful POST has
\* completed: refreshing is never cleared while such a re-fetch is still
\* pending or running.
C22_HeldUntilRefetched ==
    [][(mounted /\ refreshing /\ ~refreshing') => ~RefetchOutstanding']_vars

(***************************************************************************)
(* Claims about the order of the chat transcript                           *)
(***************************************************************************)
\* the messages of a sender among the first n of the transcript
CountUpTo(sender, n) ==
    Cardinality({i \in 1..n : chatMessages[i].sender = sender})

\* C23: in the chat transcript the user message is appended before its
\* request is sent, each bot message comes after the user message it
\* answers, and the bot replies appear in the order in which their questions
\* were sent, also when a second message is sent before the first reply has
\* arrived: a reply always answers the oldest request in flight.
C23_TranscriptOrder ==
    /\ [][sentCount' > sentCount =>
              /\ Len(chatMessages') = Len(chatMessages) + 1
              /\ chatMessages'[Len(chatMessages')].sender = "user"
              /\ Len(chatReqs') = Len(chatReqs) + 1]_vars
    /\ [](\A n \in DOMAIN chatMessages : CountUpTo("bot", n) <= CountUpTo("user", n))
    /\ [](lastReply.idx # 0 => lastReply.oldest)

(***************************************************************************)
(* Claims about the percentages of the Sentiment Overview                  *)
(***************************************************************************)
\* C24: for every sentiment distribution with non-negative integer counts
\* and a positive total, generateSentimentData returns bullish, bearish and
\* neutral percentages that each lie in 0..100 and that sum to exactly 100.
C24_PercentagesSum ==
    LET data == generateSentimentData(summaryView.summary)
    IN  (summaryView.done /\ summaryView.summary.present /\ data.present) =>
            /\ summaryView.card.overview = data
            /\ data.total > 0
            /\ data.bullishPercent \in 0..100
            /\ data.bearishPercent \in 0..100
            /\ data.neutralPercent \in 0..100
            /\ data.bullishPercent + data.bearishPercent + data.neutralPercent = 100

====
